---- MODULE Spec2Model ----
(***************************************************************************)
(* Anchored overlays of the dashboard's component library (Dropdown, Menu  *)
(* and Tooltip) and its context providers.  The state machines of this     *)
(* module:                                                                 *)
(*                                                                         *)
(*   SpecGeometry  the placement arithmetic of updatePosition, applied to  *)
(*                 inputs drawn from sample sets;                          *)
(*   Spec          the life cycle of one mounted component instance        *)
(*                 (render, commit, passive effects, DOM events, timers);  *)
(*   SpecAuth      AuthProvider: token, localStorage entry, user, loading  *)
(*                 flag and the auth requests in flight;                   *)
(*   SpecSidebar   SidebarProvider: the item tree and its mutation helpers;*)
(*   SpecFeedback  one ToastProvider with its ToastComponents, or one      *)
(*                 Notification, or one Dialog: the toasts list, the       *)
(*                 timers, the onClose calls, the body's overflow style.   *)
(*                                                                         *)
(* Lengths are held in HALF PIXELS wherever a result is stored, so that    *)
(* the source's  width / 2  (IEEE division, exact for the integer inputs   *)
(* used here) is represented exactly: Px(n) is n pixels, Half(n) is n/2    *)
(* pixels.                                                                 *)
(***************************************************************************)
EXTENDS Integers, FiniteSets, Sequences, TLC

VARIABLES
  \* --- SpecGeometry: one updatePosition closure and what it reads ---
  gIn,        \* what the closure reads: kind, rects, window, placement, align, offset
  gPosition,  \* the position state ({top, left}; useState({top: 0, left: 0}))
  gFirst,     \* history: <<[in, out]>> of the first call, or NoCall
  gPrev,      \* history: <<[in, out]>> of the call before the latest, or NoCall
  gLast,      \* history: <<[in, out]>> of the latest call, or NoCall
  \* --- Spec: one mounted instance of Dropdown, Menu or Tooltip ---
  kind,          \* which component this instance is
  mounted,       \* FALSE once React has unmounted the instance
  props,         \* the props of the last committed render
  isOpen,        \* Dropdown/Menu: useState(false)
  isVisible,     \* Tooltip: useState(false)
  position,      \* position / tooltipPos: useState({top: 0, left: 0})
  triggerRef,    \* triggerRef.current is attached
  contentRef,    \* contentRef.current / tooltipRef.current is attached
  timeoutRef,    \* Tooltip: timeoutRef.current, a timer id, or 0 for null
  timers,        \* the host's pending setTimeout timers (ids)
  winListeners,  \* window's resize/scroll listeners: [type, capture, cl]
  docListeners,  \* document's keydown listeners: [type, cl]
  posEffect,     \* the position effect: deps of its last run, its cleanup closure
  escEffect,     \* the Escape effect: deps of its last run, its cleanup closure
  focus,         \* where document focus is: "outside", "trigger" or "item"
  pointerOver,   \* history: a pointer-enter was delivered and no pointer-leave since
  event,         \* history: the last event delivered and what the handlers emitted
  \* --- SpecAuth: one AuthProvider ---
  aUser,         \* user: useState(null)
  aToken,        \* token: useState(() => localStorage.getItem(storageKey))
  aStorage,      \* the localStorage entry under storageKey, or NoToken when absent
  aIsLoading,    \* isLoading: useState(true)
  aInflight,     \* the requests awaited by refreshUser, login, register, logout
  aTokenEffect,  \* deps of the last run of the [token] effect: << >> or <<token>>
  aEvent,        \* history: the last call or settled request
  \* --- SpecSidebar: one SidebarProvider ---
  sItems,        \* items: useState(initialItems)
  sEvent,        \* history: the last helper called, its arguments, the items before
  \* --- SpecFeedback: one ToastProvider with its ToastComponents, or one Notification ---
  tMounted,      \* a ToastProvider is mounted
  tMaxToasts,    \* the maxToasts prop
  tToasts,       \* toasts: useState([])
  tCreated,      \* how many ids addToast has generated
  tComp,         \* per toast id: its ToastComponent, its timers, its onClose calls
  tEvent,        \* history: the last call, its id, the toasts before
  nProps,        \* Notification: duration and showCloseButton
  nMounted,      \* Notification: the instance is mounted
  nIsVisible,    \* Notification: useState(true)
  nTimer,        \* Notification: the auto-dismiss timer is pending
  nExitTimers,   \* Notification: pending 300 ms timers of handleClose
  nOnCloseCalls, \* history: how many times props.onClose was invoked
  \* --- SpecFeedback, continued: or one Dialog ---
  dProps,        \* Dialog: open, closeOnBackdrop, closeOnEscape, persistent
  dMounted,      \* Dialog: the instance is mounted
  dIsVisible,    \* Dialog: useState(false)
  dIsAnimating,  \* Dialog: useState(false)
  dOverflow,     \* document.body.style.overflow
  dTimer,        \* Dialog: the 150 ms timer of the [open] effect is pending
  dOpenEffect,   \* deps of the last run of the [open] effect: << >> or <<open>>
  dEscEffect,    \* deps of the last run of the Escape effect: << >> or <<props>>
  dListener,     \* document's keydown listener: << >> or <<props it closed over>>
  dEvent         \* history: the last event and what onOpenChange received

geomVars == <<gIn, gPosition, gFirst, gPrev, gLast>>
lifeVars == <<kind, mounted, props, isOpen, isVisible, position, triggerRef, contentRef,
              timeoutRef, timers, winListeners, docListeners, posEffect, escEffect,
              focus, pointerOver, event>>
authVars == <<aUser, aToken, aStorage, aIsLoading, aInflight, aTokenEffect, aEvent>>
sideVars == <<sItems, sEvent>>
toastVars == <<tMounted, tMaxToasts, tToasts, tCreated, tComp, tEvent>>
notifVars == <<nProps, nMounted, nIsVisible, nTimer, nExitTimers, nOnCloseCalls>>
dialogVars == <<dProps, dMounted, dIsVisible, dIsAnimating, dOverflow, dTimer,
                dOpenEffect, dEscEffect, dListener, dEvent>>
ctxVars == <<authVars, sideVars, toastVars, notifVars, dialogVars>>
vars == <<geomVars, lifeVars, ctxVars>>

Px(n) == 2 * n
Half(n) == n

Placements == {"top", "bottom", "left", "right"}
Aligns == {"start", "center", "end"}
GeomKinds == {"Dropdown", "Menu", "Tooltip"}

\* DOMRect getters derived from top/left/width/height.
RectBottom(r) == r.top + r.height
RectRight(r) == r.left + r.width

\* JavaScript  a || b  on numbers: b when a is 0, else a.
OrNum(a, b) == IF a # 0 THEN a ELSE b

(***************************************************************************)
(* updatePosition, once the two refs are known to be attached.  win holds  *)
(* what the call reads from window/document: pageYOffset, pageXOffset and  *)
(* documentElement.scrollTop / scrollLeft.  The result is {top, left} in   *)
(* half pixels.                                                            *)
(***************************************************************************)
DropdownPrimaryOffsetInward(triggerRect, contentRect, scrollTop, scrollLeft, placement, offset) ==
  CASE placement = "bottom" ->
         [top |-> Px(RectBottom(triggerRect)) + Px(scrollTop) + Px(offset), left |-> 0]
    [] placement = "top" ->
         [top |-> Px(triggerRect.top) + Px(scrollTop) - Px(contentRect.height) + Px(offset),
          left |-> 0]
    [] placement = "left" ->
         [top |-> Px(triggerRect.top) + Px(scrollTop),
          left |-> Px(triggerRect.left) + Px(scrollLeft) - Px(contentRect.width) - Px(offset)]
    [] placement = "right" ->
         [top |-> Px(triggerRect.top) + Px(scrollTop),
          left |-> Px(RectRight(triggerRect)) + Px(scrollLeft) + Px(offset)]
    [] OTHER -> [top |-> 0, left |-> 0]

DropdownPrimary(triggerRect, contentRect, scrollTop, scrollLeft, placement, offset) ==
  CASE placement = "bottom" ->
         [top |-> Px(RectBottom(triggerRect)) + Px(scrollTop) + Px(offset), left |-> 0]
    [] placement = "top" ->
         [top |-> Px(triggerRect.top) + Px(scrollTop) - Px(contentRect.height) - Px(offset),
          left |-> 0]
    [] placement = "left" ->
         [top |-> Px(triggerRect.top) + Px(scrollTop),
          left |-> Px(triggerRect.left) + Px(scrollLeft) - Px(contentRect.width) - Px(offset)]
    [] placement = "right" ->
         [top |-> Px(triggerRect.top) + Px(scrollTop),
          left |-> Px(RectRight(triggerRect)) + Px(scrollLeft) + Px(offset)]
    [] OTHER -> [top |-> 0, left |-> 0]

DropdownAlignEndFromLeft(p, triggerRect, contentRect, scrollTop, scrollLeft, placement, align) ==
  LET side == placement = "left" \/ placement = "right" IN
  CASE align = "start" ->
         IF side THEN [p EXCEPT !.top = Px(triggerRect.top) + Px(scrollTop)]
                 ELSE [p EXCEPT !.left = Px(triggerRect.left) + Px(scrollLeft)]
    [] align = "center" ->
         IF side
           THEN [p EXCEPT !.top = Px(triggerRect.top) + Px(scrollTop)
                                    + Half(triggerRect.height) - Half(contentRect.height)]
           ELSE [p EXCEPT !.left = Px(triggerRect.left) + Px(scrollLeft)
                                    + Half(triggerRect.width) - Half(contentRect.width)]
    [] align = "end" ->
         IF side
           THEN [p EXCEPT !.top = Px(RectBottom(triggerRect)) + Px(scrollTop)
                                    - Px(contentRect.height)]
           ELSE [p EXCEPT !.left = Px(triggerRect.left) + Px(scrollLeft)
                                    - Px(contentRect.width)]
    [] OTHER -> p

DropdownAlign(p, triggerRect, contentRect, scrollTop, scrollLeft, placement, align) ==
  LET side == placement = "left" \/ placement = "right" IN
  CASE align = "start" ->
         IF side THEN [p EXCEPT !.top = Px(triggerRect.top) + Px(scrollTop)]
                 ELSE [p EXCEPT !.left = Px(triggerRect.left) + Px(scrollLeft)]
    [] align = "center" ->
         IF side
           THEN [p EXCEPT !.top = Px(triggerRect.top) + Px(scrollTop)
                                    + Half(triggerRect.height) - Half(contentRect.height)]
           ELSE [p EXCEPT !.left = Px(triggerRect.left) + Px(scrollLeft)
                                    + Half(triggerRect.width) - Half(contentRect.width)]
    [] align = "end" ->
         IF side
           THEN [p EXCEPT !.top = Px(RectBottom(triggerRect)) + Px(scrollTop)
                                    - Px(contentRect.height)]
           ELSE [p EXCEPT !.left = Px(RectRight(triggerRect)) + Px(scrollLeft)
                                    - Px(contentRect.width)]
    [] OTHER -> p

\* Mutant: the locals start from the stored position and the result is added to it.
DropdownUpdatePositionFromStored(triggerRect, contentRect, win, placement, align, offset) ==
  LET scrollTop == OrNum(win.pageYOffset, win.docScrollTop)
      scrollLeft == OrNum(win.pageXOffset, win.docScrollLeft)
      p == DropdownAlign(
             DropdownPrimary(triggerRect, contentRect, scrollTop, scrollLeft, placement, offset),
             triggerRect, contentRect, scrollTop, scrollLeft, placement, align)
  IN [top |-> gPosition.top + p.top, left |-> gPosition.left + p.left]

DropdownUpdatePosition(triggerRect, contentRect, win, placement, align, offset) ==
  LET scrollTop == OrNum(win.pageYOffset, win.docScrollTop)
      scrollLeft == OrNum(win.pageXOffset, win.docScrollLeft)
  IN DropdownAlign(
       DropdownPrimary(triggerRect, contentRect, scrollTop, scrollLeft, placement, offset),
       triggerRect, contentRect, scrollTop, scrollLeft, placement, align)

MenuUpdatePosition(triggerRect, contentRect, win, placement, align, offset) ==
  LET scrollTop == OrNum(win.pageYOffset, win.docScrollTop)
      scrollLeft == OrNum(win.pageXOffset, win.docScrollLeft)
      side == placement = "left" \/ placement = "right"
      p0 == CASE placement = "bottom" ->
                   [top |-> Px(RectBottom(triggerRect)) + Px(scrollTop) + Px(offset),
                    left |-> 0]
              [] placement = "top" ->
                   [top |-> Px(triggerRect.top) + Px(scrollTop)
                              - Px(contentRect.height) - Px(offset),
                    left |-> 0]
              [] placement = "left" ->
                   [top |-> Px(triggerRect.top) + Px(scrollTop),
                    left |-> Px(triggerRect.left) + Px(scrollLeft)
                               - Px(contentRect.width) - Px(offset)]
              [] placement = "right" ->
                   [top |-> Px(triggerRect.top) + Px(scrollTop),
                    left |-> Px(RectRight(triggerRect)) + Px(scrollLeft) + Px(offset)]
              [] OTHER -> [top |-> 0, left |-> 0]
  IN CASE align = "start" ->
            IF side THEN [p0 EXCEPT !.top = Px(triggerRect.top) + Px(scrollTop)]
                    ELSE [p0 EXCEPT !.left = Px(triggerRect.left) + Px(scrollLeft)]
       [] align = "center" ->
            IF side
              THEN [p0 EXCEPT !.top = Px(triggerRect.top) + Px(scrollTop)
                                        + Half(triggerRect.height) - Half(contentRect.height)]
              ELSE [p0 EXCEPT !.left = Px(triggerRect.left) + Px(scrollLeft)
                                        + Half(triggerRect.width) - Half(contentRect.width)]
       [] align = "end" ->
            IF side
              THEN [p0 EXCEPT !.top = Px(RectBottom(triggerRect)) + Px(scrollTop)
                                        - Px(contentRect.height)]
              ELSE [p0 EXCEPT !.left = Px(RectRight(triggerRect)) + Px(scrollLeft)
                                        - Px(contentRect.width)]
       [] OTHER -> p0

\* Mutant: the Tooltip copy places its fixed-position box in viewport
\* coordinates, without the scroll offsets.
TooltipUpdatePositionNoScroll(triggerRect, tooltipRect, win, positionProp, align, offset) ==
  DropdownUpdatePosition(triggerRect, tooltipRect,
                         [pageYOffset |-> 0, pageXOffset |-> 0,
                          docScrollTop |-> 0, docScrollLeft |-> 0],
                         positionProp, align, offset)

TooltipUpdatePosition(triggerRect, tooltipRect, win, positionProp, align, offset) ==
  LET scrollTop == OrNum(win.pageYOffset, win.docScrollTop)
      scrollLeft == OrNum(win.pageXOffset, win.docScrollLeft)
      side == positionProp = "left" \/ positionProp = "right"
      p0 == CASE positionProp = "top" ->
                   [top |-> Px(triggerRect.top) + Px(scrollTop)
                              - Px(tooltipRect.height) - Px(offset),
                    left |-> Px(triggerRect.left) + Px(scrollLeft)]
              [] positionProp = "bottom" ->
                   [top |-> Px(RectBottom(triggerRect)) + Px(scrollTop) + Px(offset),
                    left |-> Px(triggerRect.left) + Px(scrollLeft)]
              [] positionProp = "left" ->
                   [top |-> Px(triggerRect.top) + Px(scrollTop),
                    left |-> Px(triggerRect.left) + Px(scrollLeft)
                               - Px(tooltipRect.width) - Px(offset)]
              [] positionProp = "right" ->
                   [top |-> Px(triggerRect.top) + Px(scrollTop),
                    left |-> Px(RectRight(triggerRect)) + Px(scrollLeft) + Px(offset)]
              [] OTHER -> [top |-> 0, left |-> 0]
  IN CASE align = "start" -> p0
       [] align = "center" ->
            IF side
              THEN [p0 EXCEPT !.top = Px(triggerRect.top) + Px(scrollTop)
                                        + Half(triggerRect.height) - Half(tooltipRect.height)]
              ELSE [p0 EXCEPT !.left = Px(triggerRect.left) + Px(scrollLeft)
                                        + Half(triggerRect.width) - Half(tooltipRect.width)]
       [] align = "end" ->
            IF side
              THEN [p0 EXCEPT !.top = Px(RectBottom(triggerRect)) + Px(scrollTop)
                                        - Px(tooltipRect.height)]
              ELSE [p0 EXCEPT !.left = Px(RectRight(triggerRect)) + Px(scrollLeft)
                                        - Px(tooltipRect.width)]
       [] OTHER -> p0

\* The copy of the placement arithmetic that component `kind` runs.
ResolvePosition(k, triggerRect, floatingRect, win, placement, align, offset) ==
  CASE k = "Dropdown" ->
         DropdownUpdatePosition(triggerRect, floatingRect, win, placement, align, offset)
    [] k = "Menu" ->
         MenuUpdatePosition(triggerRect, floatingRect, win, placement, align, offset)
    [] k = "Tooltip" ->
         TooltipUpdatePosition(triggerRect, floatingRect, win, placement, align, offset)

(***************************************************************************)
(* SpecGeometry: updatePosition applied to sampled inputs.                 *)
(***************************************************************************)
MaxScroll == 1

\* getBoundingClientRect() samples, in viewport pixels.
TriggerRects == {[top |-> 100, left |-> 100, width |-> 50, height |-> 20],
                 [top |-> 7, left |-> 13, width |-> 51, height |-> 21]}
FloatingRects == {[top |-> 0, left |-> 0, width |-> 80, height |-> 40],
                  [top |-> 0, left |-> 0, width |-> 33, height |-> 17]}
Offsets == {0, 8}

\* window.pageYOffset/pageXOffset with documentElement.scrollTop/scrollLeft:
\* the two agree in standards mode, and the latter is 0 in quirks mode.
WinOf(y, x, quirks) ==
  [pageYOffset |-> y, pageXOffset |-> x,
   docScrollTop |-> IF quirks THEN 0 ELSE y,
   docScrollLeft |-> IF quirks THEN 0 ELSE x]

NoCall == << >>
DefaultPosition == [top |-> 0, left |-> 0]

GeomInit ==
  /\ \E quirks \in BOOLEAN, y \in 0..MaxScroll, x \in 0..MaxScroll :
       gIn \in [kind : GeomKinds, triggerRect : TriggerRects, floatingRect : FloatingRects,
                win : {WinOf(y, x, quirks)}, quirks : {quirks}, placement : Placements,
                align : Aligns, offset : Offsets]
  /\ gPosition = DefaultPosition
  /\ gFirst = NoCall
  /\ gPrev = NoCall
  /\ gLast = NoCall

\* A call of updatePosition with both refs attached: setPosition({top, left}).
GeomUpdatePosition ==
  LET out == ResolvePosition(gIn.kind, gIn.triggerRect, gIn.floatingRect, gIn.win,
                             gIn.placement, gIn.align, gIn.offset)
      call == [in |-> gIn, out |-> out]
  IN /\ gPosition' = out
     /\ gLast' = <<call>>
     /\ gPrev' = gLast
     /\ gFirst' = IF gFirst = NoCall THEN <<call>> ELSE gFirst
     /\ UNCHANGED <<gIn, lifeVars, ctxVars>>

\* The page is scrolled vertically: what the next call reads from window changes.
GeomScroll ==
  /\ \E y \in 0..MaxScroll :
       /\ y # gIn.win.pageYOffset
       /\ gIn' = [gIn EXCEPT !.win = WinOf(y, gIn.win.pageXOffset, gIn.quirks)]
  /\ UNCHANGED <<gPosition, gFirst, gPrev, gLast, lifeVars, ctxVars>>

GeomNext == GeomUpdatePosition \/ GeomScroll


(***************************************************************************)
(* Claims about the placement arithmetic (SpecGeometry).                   *)
(***************************************************************************)
\* Trigger bounds of a call in document coordinates: viewport rect plus scroll offset.
DocTop(in) == in.triggerRect.top + in.win.pageYOffset
DocLeft(in) == in.triggerRect.left + in.win.pageXOffset
DocBottom(in) == DocTop(in) + in.triggerRect.height
DocRight(in) == DocLeft(in) + in.triggerRect.width

PrimaryAxisOk(c) ==
  CASE c.in.placement = "bottom" -> c.out.top = Px(DocBottom(c.in) + c.in.offset)
    [] c.in.placement = "top" ->
         c.out.top = Px(DocTop(c.in) - c.in.floatingRect.height - c.in.offset)
    [] c.in.placement = "left" ->
         c.out.left = Px(DocLeft(c.in) - c.in.floatingRect.width - c.in.offset)
    [] c.in.placement = "right" -> c.out.left = Px(DocRight(c.in) + c.in.offset)

\* C1: for every side, align and offset, updatePosition of Dropdown, Menu and
\* Tooltip sets the primary-axis coordinate to trigger.bottom + offset (bottom),
\* trigger.top - floating.height - offset (top), trigger.left - floating.width -
\* offset (left), trigger.right + offset (right), in document coordinates, and the
\* stored position is that value unclamped.
C1_PrimaryAxis ==
  \A i \in 1..Len(gLast) : PrimaryAxisOk(gLast[i]) /\ gPosition = gLast[i].out

\* C1 witness: a Tooltip placed above a trigger near the top edge is given a
\* negative top (nothing clamps it to the viewport).
C1_Witness ==
  /\ gLast # NoCall
  /\ gLast[1].in.kind = "Tooltip"
  /\ gLast[1].in.placement = "top"
  /\ gLast[1].in.offset > 0
  /\ gPosition.top < 0

CrossAxisOk(c) ==
  LET f == c.in.floatingRect
      t == c.in.triggerRect
      side == c.in.placement \in {"left", "right"}
  IN CASE c.in.align = "start" ->
            IF side THEN c.out.top = Px(DocTop(c.in)) ELSE c.out.left = Px(DocLeft(c.in))
       [] c.in.align = "center" ->
            IF side THEN c.out.top = Px(DocTop(c.in)) + Half(t.height) - Half(f.height)
                    ELSE c.out.left = Px(DocLeft(c.in)) + Half(t.width) - Half(f.width)
       [] c.in.align = "end" ->
            IF side THEN c.out.top = Px(DocBottom(c.in) - f.height)
                    ELSE c.out.left = Px(DocRight(c.in) - f.width)

\* The worked example: trigger {top:100,left:100,width:50,height:20}, floating
\* {width:80,height:40}, offset 8, page not scrolled.
IsExample(in) ==
  /\ in.triggerRect = [top |-> 100, left |-> 100, width |-> 50, height |-> 20]
  /\ in.floatingRect.width = 80 /\ in.floatingRect.height = 40
  /\ in.offset = 8
  /\ in.win.pageYOffset = 0 /\ in.win.pageXOffset = 0

ExamplesOk(c) ==
  IsExample(c.in) =>
    /\ (c.in.placement = "bottom" /\ c.in.align = "start")
          => c.out = [top |-> Px(128), left |-> Px(100)]
    /\ (c.in.placement = "top" /\ c.in.align = "center")
          => c.out = [top |-> Px(52), left |-> Px(85)]
    /\ (c.in.placement = "right" /\ c.in.align = "end")
          => c.out = [top |-> Px(80), left |-> Px(158)]

\* C2: for every side and align, updatePosition of Dropdown, Menu and Tooltip sets
\* the cross-axis coordinate by the start / center / end rule (on left for side
\* top/bottom, on top for side left/right), and the three worked examples give
\* {128,100}, {52,85} and {80,158}.
C2_CrossAxis ==
  \A i \in 1..Len(gLast) : CrossAxisOk(gLast[i]) /\ ExamplesOk(gLast[i])

\* C2 witness: the (top, center) example has been resolved by the Menu copy.
C2_Witness ==
  /\ gLast # NoCall
  /\ gLast[1].in.kind = "Menu"
  /\ IsExample(gLast[1].in)
  /\ gLast[1].in.placement = "top" /\ gLast[1].in.align = "center"
  /\ gPosition = [top |-> Px(52), left |-> Px(85)]

OverlayKinds == {"Dropdown", "Menu"}
Kinds == OverlayKinds \cup {"Tooltip"}

\* props.open is << >> when the open prop is undefined, else <<value>>.
Undefined == << >>

\* Destructuring defaults of the three components, and the values the parent varies.
PropsSpace(k) ==
  IF k \in OverlayKinds
    THEN [open : {Undefined, <<TRUE>>, <<FALSE>>}, onOpenChange : BOOLEAN,
          placement : {"bottom", "top"}, align : {"start"}, offset : {8},
          closeOnClick : BOOLEAN, closeOnEscape : BOOLEAN, closeOnBlur : BOOLEAN,
          delay : {0}, disabled : {FALSE}, trigger : {"click"}]
    ELSE [open : {Undefined}, onOpenChange : {FALSE},
          placement : {"top", "bottom"}, align : {"center"}, offset : {8},
          closeOnClick : {TRUE}, closeOnEscape : {TRUE}, closeOnBlur : {TRUE},
          delay : {0, 200}, disabled : BOOLEAN, trigger : {"hover", "click", "focus"}]

\* What getBoundingClientRect() and window return in this life cycle.
LifeTriggerRect == [top |-> 100, left |-> 100, width |-> 50, height |-> 20]
LifeFloatingRect == [top |-> 0, left |-> 0, width |-> 80, height |-> 40]
LifeWin == WinOf(0, 0, FALSE)

NoEffect == [deps |-> << >>, cleanup |-> << >>]

Cur ==
  [kind |-> kind, mounted |-> mounted, props |-> props, isOpen |-> isOpen,
   isVisible |-> isVisible, position |-> position, triggerRef |-> triggerRef,
   contentRef |-> contentRef, timeoutRef |-> timeoutRef, timers |-> timers,
   winListeners |-> winListeners, docListeners |-> docListeners,
   posEffect |-> posEffect, escEffect |-> escEffect, focus |-> focus,
   pointerOver |-> pointerOver]

Becomes(S) ==
  /\ kind' = S.kind
  /\ mounted' = S.mounted
  /\ props' = S.props
  /\ isOpen' = S.isOpen
  /\ isVisible' = S.isVisible
  /\ position' = S.position
  /\ triggerRef' = S.triggerRef
  /\ contentRef' = S.contentRef
  /\ timeoutRef' = S.timeoutRef
  /\ timers' = S.timers
  /\ winListeners' = S.winListeners
  /\ docListeners' = S.docListeners
  /\ posEffect' = S.posEffect
  /\ escEffect' = S.escEffect
  /\ focus' = S.focus
  /\ pointerOver' = S.pointerOver
  /\ UNCHANGED <<geomVars, ctxVars>>

\* const isControlled = controlledOpen !== undefined
IsControlled(S) == S.props.open # Undefined

\* const open = isControlled ? controlledOpen : isOpen
DropdownOpen(S) == IF IsControlled(S) THEN S.props.open[1] ELSE S.isOpen

\* The condition under which the floating element is rendered.
Shown(S) == IF S.kind = "Tooltip" THEN S.isVisible ELSE DropdownOpen(S)

\* Mutant: the floating element is rendered without ref={contentRef}.
RenderWithoutContentRef(S) ==
  [S EXCEPT !.contentRef = FALSE,
            !.focus = IF @ = "item" /\ ~(S.mounted /\ Shown(S)) THEN "outside" ELSE @]

\* Commit of a render: the floating element's ref is attached exactly when it is
\* rendered; focus that was on a removed item falls back to the document.
Render(S) ==
  [S EXCEPT !.contentRef = S.mounted /\ Shown(S),
            !.focus = IF @ = "item" /\ ~(S.mounted /\ Shown(S)) THEN "outside" ELSE @]

\* What state setters and the onOpenChange prop were called with, in a handler.
NoWrites ==
  [setIsOpen |-> << >>, setIsVisible |-> << >>, setPosition |-> << >>, emit |-> << >>]

ApplyWrites(S, w) ==
  [S EXCEPT !.isOpen = IF w.setIsOpen # << >> THEN w.setIsOpen[1] ELSE @,
            !.isVisible = IF w.setIsVisible # << >> THEN w.setIsVisible[1] ELSE @,
            !.position = IF w.setPosition # << >> THEN w.setPosition[1] ELSE @]

(***************************************************************************)
(* Closures.  A function created by a render is identified by fn, a number *)
(* no live listener or cleanup uses, and carries the values it captured.   *)
(***************************************************************************)
UsedFns(S) ==
  {l.cl.fn : l \in S.winListeners} \cup {l.cl.fn : l \in S.docListeners}
    \cup {S.posEffect.cleanup[i].fn : i \in 1..Len(S.posEffect.cleanup)}
    \cup {S.escEffect.cleanup[i].fn : i \in 1..Len(S.escEffect.cleanup)}

FreshFn(S) == CHOOSE n \in 1..(Cardinality(UsedFns(S)) + 1) : n \notin UsedFns(S)

\* updatePosition of the current render: it reads placement, align and offset.
PosClosure(S, fn) ==
  [fn |-> fn, placement |-> S.props.placement, align |-> S.props.align,
   offset |-> S.props.offset]

\* handleEscape of the current render, with the handleClose it calls.
EscClosure(S, fn) ==
  [fn |-> fn, closeOnEscape |-> S.props.closeOnEscape, open |-> DropdownOpen(S),
   isControlled |-> IsControlled(S), onOpenChange |-> S.props.onOpenChange]

\* Mutant: updatePosition without its guard measures a missing floating element
\* as an empty rectangle.
UpdatePositionWritesUnguarded(S, cl) ==
  LET floating == IF S.contentRef THEN LifeFloatingRect
                  ELSE [top |-> 0, left |-> 0, width |-> 0, height |-> 0]
  IN [NoWrites EXCEPT !.setPosition =
        <<ResolvePosition(S.kind, LifeTriggerRect, floating, LifeWin,
                          cl.placement, cl.align, cl.offset)>>]

\* updatePosition: nothing when a ref is null, else setPosition({top, left}).
UpdatePositionWrites(S, cl) ==
  IF ~S.triggerRef \/ ~S.contentRef
    THEN NoWrites
    ELSE [NoWrites EXCEPT !.setPosition =
            <<ResolvePosition(S.kind, LifeTriggerRect, LifeFloatingRect, LifeWin,
                              cl.placement, cl.align, cl.offset)>>]

\* window.addEventListener('resize' | 'scroll', updatePosition[, true])
PosAdded(k, cl) ==
  {[type |-> "resize", capture |-> FALSE, cl |-> cl],
   [type |-> "scroll", capture |-> (k = "Tooltip"), cl |-> cl]}

\* Mutant: the cleanup drops the capture flag of the scroll listener.
PosRemovedNoCapture(k, cl) ==
  {[type |-> "resize", capture |-> FALSE, cl |-> cl],
   [type |-> "scroll", capture |-> FALSE, cl |-> cl]}

\* window.removeEventListener('resize' | 'scroll', updatePosition[, true])
PosRemoved(k, cl) ==
  {[type |-> "resize", capture |-> FALSE, cl |-> cl],
   [type |-> "scroll", capture |-> (k = "Tooltip"), cl |-> cl]}

PosDeps(S) ==
  IF S.kind = "Tooltip"
    THEN <<S.isVisible, S.props.placement, S.props.align, S.props.offset>>
    ELSE <<DropdownOpen(S)>>

EscDeps(S) == <<DropdownOpen(S), S.props.closeOnEscape>>

\* The cleanup the position effect returned at its last run, if any.
PosCleanup(S) ==
  IF S.posEffect.cleanup = << >>
    THEN S
    ELSE [S EXCEPT !.winListeners = @ \ PosRemoved(S.kind, S.posEffect.cleanup[1])]

\* useEffect(() => { if (open) { updatePosition(); add...; return () => remove... } })
RunPosEffect(S, fn) ==
  LET cleaned == PosCleanup(S)
      cl == PosClosure(S, fn)
  IN IF Shown(S)
       THEN [ApplyWrites(cleaned, UpdatePositionWrites(cleaned, cl)) EXCEPT
               !.winListeners = @ \cup PosAdded(S.kind, cl),
               !.posEffect = [deps |-> <<PosDeps(S)>>, cleanup |-> <<cl>>]]
       ELSE [cleaned EXCEPT !.posEffect = [deps |-> <<PosDeps(S)>>, cleanup |-> << >>]]

EscCleanup(S) ==
  IF S.escEffect.cleanup = << >>
    THEN S
    ELSE [S EXCEPT !.docListeners = @ \ {[type |-> "keydown", cl |-> S.escEffect.cleanup[1]]}]

\* useEffect(() => { if (open) { document.addEventListener('keydown', handleEscape);
\*                               return () => document.removeEventListener(...) } })
RunEscEffect(S, fn) ==
  LET cleaned == EscCleanup(S)
      cl == EscClosure(S, fn)
  IN IF DropdownOpen(S)
       THEN [cleaned EXCEPT
               !.docListeners = @ \cup {[type |-> "keydown", cl |-> cl]},
               !.escEffect = [deps |-> <<EscDeps(S)>>, cleanup |-> <<cl>>]]
       ELSE [cleaned EXCEPT !.escEffect = [deps |-> <<EscDeps(S)>>, cleanup |-> << >>]]

PosEffectPending(S) == S.mounted /\ S.posEffect.deps # <<PosDeps(S)>>
EscEffectPending(S) ==
  S.mounted /\ S.kind \in OverlayKinds /\ S.escEffect.deps # <<EscDeps(S)>>
Pending(S) == PosEffectPending(S) \/ EscEffectPending(S)

\* The passive effects of the last commit whose dependencies changed, in order.
FlushEffects(S) ==
  LET fn == FreshFn(S)
      S1 == IF PosEffectPending(S) THEN RunPosEffect(S, fn) ELSE S
  IN IF EscEffectPending(S) THEN RunEscEffect(S1, fn) ELSE S1

\* A React handler's writes: the state changes and the render is committed.
Commit(S, w) == Render(ApplyWrites(S, w))

\* Writes made outside a React handler (a DOM listener, a timer).  Nothing happens
\* on an unmounted instance or when no state changes; otherwise React runs the
\* pending effects with the values of the last commit and then renders, and a
\* setPosition queued by those effects comes after the handler's.
NativeCommit(S, w) ==
  IF ~S.mounted \/ ApplyWrites(S, w) = S
    THEN S
    ELSE IF ~Pending(S)
      THEN Commit(S, w)
      ELSE LET F == FlushEffects(S)
               effectSetsPosition ==
                 PosEffectPending(S) /\ Shown(S) /\ S.triggerRef /\ S.contentRef
           IN Commit(F, IF effectSetsPosition THEN [w EXCEPT !.setPosition = << >>] ELSE w)

\* Unmount: every effect's cleanup runs, the refs are detached.
Unmounted(S) ==
  [EscCleanup(PosCleanup(S)) EXCEPT
     !.mounted = FALSE, !.triggerRef = FALSE, !.contentRef = FALSE,
     !.posEffect = [@ EXCEPT !.cleanup = << >>],
     !.escEffect = [@ EXCEPT !.cleanup = << >>],
     !.focus = "outside"]

(***************************************************************************)
(* Handlers of Dropdown and Menu.                                          *)
(***************************************************************************)
\* handleToggle: if (!isControlled) setIsOpen(!isOpen); onOpenChange?.(!open)
HandleToggle(S) ==
  [NoWrites EXCEPT
     !.setIsOpen = IF ~IsControlled(S) THEN <<~S.isOpen>> ELSE << >>,
     !.emit = IF S.props.onOpenChange THEN <<~DropdownOpen(S)>> ELSE << >>]

\* handleClose: if (!isControlled) setIsOpen(false); onOpenChange?.(false)
\* (the isControlled and onOpenChange of the render that created it).
HandleClose(isControlled, onOpenChange) ==
  [NoWrites EXCEPT
     !.setIsOpen = IF ~isControlled THEN <<FALSE>> ELSE << >>,
     !.emit = IF onOpenChange THEN <<FALSE>> ELSE << >>]

\* handleItemClick: if (closeOnClick) handleClose(); onClick?.()
\* Nothing passes it to the items: no rendered element calls it.
HandleItemClick(S) ==
  IF S.props.closeOnClick
    THEN HandleClose(IsControlled(S), S.props.onOpenChange)
    ELSE NoWrites

\* DropdownItem / MenuItem: onClick={() => !disabled && onClick?.()}, where onClick
\* is the item's own prop, supplied by the caller.
ItemOnClick(S, disabled) == NoWrites

\* dropdownRef.current?.contains(e.relatedTarget): undefined when the ref is null.
RootContains(S, relatedTarget) == S.mounted /\ relatedTarget \in {"trigger", "item"}

\* Mutant: the blur handler does not look at where focus went.
HandleBlurAnyTarget(S, relatedTarget) ==
  IF S.props.closeOnBlur
    THEN HandleClose(IsControlled(S), S.props.onOpenChange)
    ELSE NoWrites

\* handleBlur: if (closeOnBlur && !root.contains(e.relatedTarget)) handleClose()
HandleBlur(S, relatedTarget) ==
  IF S.props.closeOnBlur /\ ~RootContains(S, relatedTarget)
    THEN HandleClose(IsControlled(S), S.props.onOpenChange)
    ELSE NoWrites

\* handleEscape of closure cl: if (closeOnEscape && e.key === 'Escape' && open)
\* handleClose()
HandleEscape(cl, key) ==
  IF cl.closeOnEscape /\ key = "Escape" /\ cl.open
    THEN HandleClose(cl.isControlled, cl.onOpenChange)
    ELSE NoWrites

(***************************************************************************)
(* Handlers of Tooltip.                                                    *)
(***************************************************************************)
MaxTimers == 2

FreshTimer(S) ==
  CHOOSE n \in 1..(Cardinality(S.timers) + 2) : n \notin S.timers \cup {S.timeoutRef}

\* showTooltip: if (disabled) return; if (delay > 0) timeoutRef.current =
\* setTimeout(() => setIsVisible(true), delay); else setIsVisible(true)
ShowTooltip(S) ==
  IF S.props.disabled
    THEN S
    ELSE IF S.props.delay > 0
      THEN [S EXCEPT !.timers = @ \cup {FreshTimer(S)}, !.timeoutRef = FreshTimer(S)]
      ELSE [S EXCEPT !.isVisible = TRUE]

\* hideTooltip: if (timeoutRef.current) { clearTimeout(timeoutRef.current);
\* timeoutRef.current = null }; setIsVisible(false)
HideTooltip(S) ==
  LET cleared == IF S.timeoutRef # 0
                   THEN [S EXCEPT !.timers = @ \ {S.timeoutRef}, !.timeoutRef = 0]
                   ELSE S
  IN [cleared EXCEPT !.isVisible = FALSE]

HandleMouseEnter(S) == IF S.props.trigger = "hover" THEN ShowTooltip(S) ELSE S
HandleMouseLeave(S) == IF S.props.trigger = "hover" THEN HideTooltip(S) ELSE S
\* Mutant: handleClick toggles in every trigger mode.
HandleClickAnyMode(S) == [S EXCEPT !.isVisible = ~S.isVisible]

HandleClick(S) ==
  IF S.props.trigger = "click" THEN [S EXCEPT !.isVisible = ~S.isVisible] ELSE S
HandleFocus(S) == IF S.props.trigger = "focus" THEN ShowTooltip(S) ELSE S
TooltipHandleBlur(S) == IF S.props.trigger = "focus" THEN HideTooltip(S) ELSE S

(***************************************************************************)
(* Initial state: the instance has been constructed and its first render   *)
(* committed; its effects have not run yet.                                *)
(***************************************************************************)
Ev(name, arg, wasOpen, emitted) ==
  [name |-> name, arg |-> arg, wasOpen |-> wasOpen, emitted |-> emitted]

LifeInit ==
  /\ kind \in Kinds
  /\ props \in PropsSpace(kind)
  /\ mounted = TRUE
  /\ isOpen = FALSE
  /\ isVisible = FALSE
  /\ position = DefaultPosition
  /\ triggerRef = TRUE
  /\ contentRef = (kind \in OverlayKinds /\ props.open = <<TRUE>>)
  /\ timeoutRef = 0
  /\ timers = {}
  /\ winListeners = {}
  /\ docListeners = {}
  /\ posEffect = NoEffect
  /\ escEffect = NoEffect
  /\ focus = "outside"
  /\ pointerOver = FALSE
  /\ event = Ev("mount", "", FALSE, << >>)

\* The passive effects of the last commit run.
RunEffects ==
  /\ Pending(Cur)
  /\ Becomes(Render(FlushEffects(Cur)))
  /\ event' = Ev("effects", "", Shown(Cur), << >>)

(***************************************************************************)
(* Events of Dropdown and Menu.                                            *)
(***************************************************************************)
OverlayReady == kind \in OverlayKinds /\ mounted /\ ~Pending(Cur)

\* A click on the trigger wrapper: onClick={handleToggle}.
ClickTrigger ==
  /\ OverlayReady
  /\ LET w == HandleToggle(Cur)
     IN /\ Becomes(Commit(Cur, w))
        /\ event' = Ev("clickTrigger", "", DropdownOpen(Cur), w.emit)

\* A click on an item of the open overlay.  The item takes focus (a blur inside the
\* root when focus was on the trigger), then its onClick runs.
ClickItem ==
  /\ OverlayReady
  /\ contentRef
  /\ \E disabled \in BOOLEAN :
       LET wb == IF focus = "trigger" THEN HandleBlur(Cur, "item") ELSE NoWrites
           S1 == [Commit(Cur, wb) EXCEPT !.focus = "item"]
           wc == ItemOnClick(S1, disabled)
       IN /\ Becomes(Render(Commit(S1, wc)))
          /\ event' = Ev("clickItem", IF disabled THEN "disabled" ELSE "enabled",
                         DropdownOpen(Cur), wb.emit \o wc.emit)

\* Focus leaves an element inside the root (Tab, or a press elsewhere): the root's
\* onBlur gets the blur, relatedTarget being the element focus moves to, or null.
Blur ==
  /\ OverlayReady
  /\ focus \in {"trigger", "item"}
  /\ \E relatedTarget \in {"trigger", "item", "outside", "null"} :
       /\ relatedTarget # focus
       /\ relatedTarget = "item" => contentRef
       /\ LET w == HandleBlur(Cur, relatedTarget)
              to == IF relatedTarget = "null" THEN "outside" ELSE relatedTarget
          IN /\ Becomes(Commit([Cur EXCEPT !.focus = to], w))
             /\ event' = Ev("blur", relatedTarget, DropdownOpen(Cur), w.emit)

\* Focus enters the root from outside: no handler of the component listens.
FocusIn ==
  /\ OverlayReady
  /\ focus = "outside"
  /\ \E to \in {"trigger", "item"} :
       /\ to = "item" => contentRef
       /\ Becomes([Cur EXCEPT !.focus = to])
       /\ event' = Ev("focusin", to, DropdownOpen(Cur), << >>)

\* A click outside the trigger and the floating element.  The component registers
\* no document click listener; the press blurs the element inside the root that
\* had focus, if any.
ClickOutside ==
  /\ OverlayReady
  /\ \E relatedTarget \in {"outside", "null"} :
       LET inside == focus \in {"trigger", "item"}
           w == IF inside THEN HandleBlur(Cur, relatedTarget) ELSE NoWrites
       IN /\ Becomes(Commit([Cur EXCEPT !.focus = "outside"], w))
          /\ event' = Ev("clickOutside", IF inside THEN "focusInside" ELSE "focusOutside",
                         DropdownOpen(Cur), w.emit)

\* A keydown reaches document: the registered handleEscape listeners run.
KeyDown ==
  /\ kind \in OverlayKinds /\ mounted
  /\ \E key \in {"Escape", "Enter"} :
       \/ /\ docListeners = {}
          /\ Becomes(Cur)
          /\ event' = Ev("keydown", key, DropdownOpen(Cur), << >>)
       \/ \E l \in docListeners :
            LET w == HandleEscape(l.cl, key)
            IN /\ Becomes(NativeCommit(Cur, w))
               /\ event' = Ev("keydown", key, DropdownOpen(Cur), w.emit)

(***************************************************************************)
(* Events of Tooltip.                                                      *)
(***************************************************************************)
TooltipReady == kind = "Tooltip" /\ mounted /\ ~Pending(Cur)

\* Whether showTooltip would start one more timer than the model keeps.
TimerRoom == Cardinality(timers) < MaxTimers

MouseEnter ==
  /\ TooltipReady /\ TimerRoom
  /\ Becomes(Render([HandleMouseEnter(Cur) EXCEPT !.pointerOver = TRUE]))
  /\ event' = Ev("mouseenter", "", isVisible, << >>)

MouseLeave ==
  /\ TooltipReady
  /\ Becomes(Render([HandleMouseLeave(Cur) EXCEPT !.pointerOver = FALSE]))
  /\ event' = Ev("mouseleave", "", isVisible, << >>)

TooltipClick ==
  /\ TooltipReady
  /\ Becomes(Render(HandleClick(Cur)))
  /\ event' = Ev("click", "", isVisible, << >>)

TooltipFocus ==
  /\ TooltipReady /\ TimerRoom
  /\ focus = "outside"
  /\ Becomes(Render([HandleFocus(Cur) EXCEPT !.focus = "trigger"]))
  /\ event' = Ev("focus", "", isVisible, << >>)

TooltipBlur ==
  /\ TooltipReady
  /\ focus = "trigger"
  /\ Becomes(Render([TooltipHandleBlur(Cur) EXCEPT !.focus = "outside"]))
  /\ event' = Ev("blur", "", isVisible, << >>)

\* A pending timer fires: () => setIsVisible(true).
TimerFire ==
  /\ \E id \in timers :
       Becomes(NativeCommit([Cur EXCEPT !.timers = @ \ {id}],
                            [NoWrites EXCEPT !.setIsVisible = <<TRUE>>]))
  /\ event' = Ev("timer", "", isVisible, << >>)

(***************************************************************************)
(* Events of all three components.                                         *)
(***************************************************************************)
\* window dispatches resize or scroll: the registered updatePosition closures run.
WindowEvent ==
  /\ mounted
  /\ \E type \in {"resize", "scroll"} :
       LET ls == {l \in winListeners : l.type = type}
       IN \/ /\ ls = {}
             /\ Becomes(Cur)
             /\ event' = Ev(type, "none", Shown(Cur), << >>)
          \/ \E l \in ls :
               /\ Becomes(NativeCommit(Cur, UpdatePositionWrites(Cur, l.cl)))
               /\ event' = Ev(type, "listener", Shown(Cur), << >>)

\* The props that differ from pr in one of the props the parent varies.  A Tooltip
\* keeps its trigger mode, delay and disabled flag for life here.
PropChanges(k, pr) ==
  ({[pr EXCEPT !.open = v] : v \in {Undefined, <<TRUE>>, <<FALSE>>}}
     \cup {[pr EXCEPT !.placement = v] : v \in Placements}
     \cup {[pr EXCEPT !.onOpenChange = ~@], [pr EXCEPT !.closeOnClick = ~@],
           [pr EXCEPT !.closeOnEscape = ~@], [pr EXCEPT !.closeOnBlur = ~@]})
    \cap (PropsSpace(k) \ {pr})

\* The parent renders the component with other props.
SetProps ==
  /\ mounted /\ ~Pending(Cur)
  /\ \E p \in PropChanges(kind, props) :
       /\ Becomes(Render([Cur EXCEPT !.props = p]))
       /\ event' = Ev("setProps", "", Shown(Cur), << >>)

Unmount ==
  /\ mounted /\ ~Pending(Cur)
  /\ Becomes(Unmounted(Cur))
  /\ event' = Ev("unmount", "", Shown(Cur), << >>)

LifeNext ==
  \/ RunEffects
  \/ ClickTrigger
  \/ ClickItem
  \/ Blur
  \/ FocusIn
  \/ ClickOutside
  \/ KeyDown
  \/ MouseEnter
  \/ MouseLeave
  \/ TooltipClick
  \/ TooltipFocus
  \/ TooltipBlur
  \/ TimerFire
  \/ WindowEvent
  \/ SetProps
  \/ Unmount

(***************************************************************************)
(* SpecAuth: AuthProvider (context/authContext.tsx), in a browser           *)
(* (typeof window !== 'undefined').  A request is in flight from the await  *)
(* that starts it until its promise settles; requests settle in any order.  *)
(* The [token] effect runs after the commit that changed the token and      *)
(* before the provider handles anything else.                               *)
(***************************************************************************)
NoToken == "<null>"
NoUser == "<null>"
Tokens == {"", "t1", "t2"}
Users == {"u1", "u2"}
MaxInFlight == 2

\* if (newToken) / if (!token): null and the empty string are falsy.
Truthy(t) == t # NoToken /\ t # ""

\* Mutant: setToken does not call removeItem for a falsy token.
SetTokenKeepsEntry(newToken, entry) == IF Truthy(newToken) THEN newToken ELSE entry

\* setToken: localStorage.setItem(storageKey, newToken) for a truthy token,
\* localStorage.removeItem(storageKey) otherwise.
SetTokenStorage(newToken, entry) == IF Truthy(newToken) THEN newToken ELSE NoToken

AuthEv(name, op, token, user, ok, thrown, before) ==
  [name |-> name, op |-> op, token |-> token, user |-> user, ok |-> ok,
   thrown |-> thrown, before |-> before]

AuthFrame == UNCHANGED <<geomVars, lifeVars, sideVars, toastVars, notifVars, dialogVars>>

\* The entry found at construction is absent or a token an earlier session
\* stored: setToken never stores the empty string.
AuthInit ==
  /\ aStorage \in (Tokens \ {""}) \cup {NoToken}
  /\ aToken = aStorage
  /\ aUser = NoUser
  /\ aIsLoading = TRUE
  /\ aInflight = {}
  /\ aTokenEffect = << >>
  /\ aEvent = AuthEv("mount", "", aStorage, NoUser, TRUE, FALSE, aStorage)

AuthFreshId == CHOOSE n \in 1..(MaxInFlight + 1) : \A r \in aInflight : r.id # n

AuthRequest(op, token) == [id |-> AuthFreshId, op |-> op, token |-> token]

\* refreshUser up to its await: without a token setUser(null), setIsLoading(false);
\* with one setIsLoading(true) and the fetch of the user for that token.
RefreshUser ==
  IF ~Truthy(aToken)
    THEN /\ aUser' = NoUser
         /\ aIsLoading' = FALSE
         /\ aInflight' = aInflight
    ELSE /\ aUser' = aUser
         /\ aIsLoading' = TRUE
         /\ aInflight' = aInflight \cup {AuthRequest("refreshUser", aToken)}

\* Mutant: setToken updates the state and leaves localStorage alone.
SetTokenStateOnly(newToken) ==
  /\ aToken' = newToken
  /\ aStorage' = aStorage

\* setToken(newToken): setTokenState(newToken) and the localStorage write.
SetToken(newToken) ==
  /\ aToken' = newToken
  /\ aStorage' = SetTokenStorage(newToken, aStorage)

\* Mutant: the effect has no dependencies and runs on mount only.
AuthEffectOnMountOnly == aTokenEffect = << >>

\* The [token] effect has not run since the token last changed.
AuthEffectPending == aTokenEffect # <<aToken>>
AuthReady == ~AuthEffectPending
AuthRoom == Cardinality(aInflight) < MaxInFlight

\* useEffect(() => { refreshUser() }, [token])
AuthTokenEffect ==
  /\ AuthEffectPending
  /\ RefreshUser
  /\ aTokenEffect' = <<aToken>>
  /\ UNCHANGED <<aToken, aStorage>>
  /\ aEvent' = AuthEv("effect", "refreshUser", aToken, NoUser, TRUE, FALSE, aToken)
  /\ AuthFrame

\* A consumer calls refreshUser().
AuthRefreshUser ==
  /\ AuthReady /\ AuthRoom
  /\ RefreshUser
  /\ UNCHANGED <<aToken, aStorage, aTokenEffect>>
  /\ aEvent' = AuthEv("call", "refreshUser", aToken, NoUser, TRUE, FALSE, aToken)
  /\ AuthFrame

\* A consumer calls setToken(t).
AuthSetToken ==
  /\ AuthReady /\ AuthRoom
  /\ \E t \in Tokens \cup {NoToken} :
       /\ SetToken(t)
       /\ aEvent' = AuthEv("call", "setToken", t, NoUser, TRUE, FALSE, aToken)
  /\ UNCHANGED <<aUser, aIsLoading, aInflight, aTokenEffect>>
  /\ AuthFrame

\* login / register up to the await: setIsLoading(true), then the request.
AuthLoginOrRegister ==
  /\ AuthReady /\ AuthRoom
  /\ \E op \in {"login", "register"} :
       /\ aInflight' = aInflight \cup {AuthRequest(op, NoToken)}
       /\ aEvent' = AuthEv("call", op, NoToken, NoUser, TRUE, FALSE, aToken)
  /\ aIsLoading' = TRUE
  /\ UNCHANGED <<aUser, aToken, aStorage, aTokenEffect>>
  /\ AuthFrame

\* logout up to the await: setIsLoading(true), then logoutRequest(token) or the
\* default request, with the token of the render that created logout.
AuthLogout ==
  /\ AuthReady /\ AuthRoom
  /\ aInflight' = aInflight \cup {AuthRequest("logout", aToken)}
  /\ aIsLoading' = TRUE
  /\ UNCHANGED <<aUser, aToken, aStorage, aTokenEffect>>
  /\ aEvent' = AuthEv("call", "logout", aToken, NoUser, TRUE, FALSE, aToken)
  /\ AuthFrame

\* A request settles and the rest of its async function runs.
\*   refreshUser: setUser(fetchedUser) | catch: setUser(null), setToken(null);
\*                finally setIsLoading(false)
\*   login, register: setUser(result.user), setToken(result.token) |
\*                catch: setUser(null), setToken(null), throw; finally as above
\*   logout: finally setUser(null), setToken(null), setIsLoading(false)
AuthSettle ==
  /\ AuthReady
  /\ \E r \in aInflight, ok \in BOOLEAN, u \in Users, t \in Tokens :
       /\ aInflight' = aInflight \ {r}
       /\ aIsLoading' = FALSE
       /\ CASE r.op = "logout" ->
                 /\ aUser' = NoUser
                 /\ SetToken(NoToken)
                 /\ aEvent' = AuthEv("settle", r.op, r.token, NoUser, ok, FALSE, aToken)
            [] r.op = "refreshUser" /\ ok ->
                 /\ aUser' = u
                 /\ UNCHANGED <<aToken, aStorage>>
                 /\ aEvent' = AuthEv("settle", r.op, r.token, u, TRUE, FALSE, aToken)
            [] r.op \in {"login", "register"} /\ ok ->
                 /\ aUser' = u
                 /\ SetToken(t)
                 /\ aEvent' = AuthEv("settle", r.op, t, u, TRUE, FALSE, aToken)
            [] OTHER ->
                 /\ aUser' = NoUser
                 /\ SetToken(NoToken)
                 /\ aEvent' = AuthEv("settle", r.op, r.token, NoUser, FALSE,
                                     r.op # "refreshUser", aToken)
  /\ UNCHANGED aTokenEffect
  /\ AuthFrame

AuthNext ==
  \/ AuthTokenEffect
  \/ AuthRefreshUser
  \/ AuthSetToken
  \/ AuthLoginOrRegister
  \/ AuthLogout
  \/ AuthSettle

\* The provider as constructed with an empty localStorage.
AuthIdle ==
  /\ AuthInit
  /\ aStorage = NoToken

(***************************************************************************)
(* SpecSidebar: SidebarProvider (context/sidebarContext.tsx).  An item is   *)
(* [key, label, children]; children is Undefined or <<the list>>.           *)
(***************************************************************************)
Keys == {"a", "b"}
NoParentKey == "<undefined>"
MaxNodes == 5

Leaf(key, label) == [key |-> key, label |-> label, children |-> Undefined]
Node(key, label, children) == [key |-> key, label |-> label, children |-> <<children>>]

\* The initialItems prop: samples with a key repeated at several depths, an
\* empty children list and items without children.
InitialItems ==
  { << >>,
    <<Leaf("a", "l1"), Leaf("b", "l2"), Leaf("a", "l3")>>,
    <<Node("a", "l1", <<Leaf("b", "l2")>>), Node("b", "l3", << >>)>>,
    <<Node("b", "l1", <<Node("a", "l2", <<Leaf("b", "l3")>>), Leaf("b", "l4")>>),
      Leaf("a", "l5")>>,
    <<Node("a", "l1", <<Node("b", "l2", <<Leaf("a", "l3")>>)>>), Leaf("b", "l4")>> }

RECURSIVE NodeCount(_)
NodeCount(items) ==
  IF items = << >>
    THEN 0
    ELSE 1 + (IF Head(items).children # Undefined
                THEN NodeCount(Head(items).children[1]) ELSE 0)
           + NodeCount(Tail(items))

\* addItem's addToParent: items.map(it => it.key === parentKey ? {...it, children:
\* it.children ? [...it.children, item] : [item]} : it.children ? {...it,
\* children: addToParent(it.children)} : it)
RECURSIVE AddToParent(_, _, _)
AddToParent(items, item, parentKey) ==
  [i \in 1..Len(items) |->
     IF items[i].key = parentKey
       THEN [items[i] EXCEPT !.children =
               IF @ # Undefined THEN <<Append(@[1], item)>> ELSE <<<<item>>>>]
       ELSE IF items[i].children # Undefined
         THEN [items[i] EXCEPT !.children = <<AddToParent(@[1], item, parentKey)>>]
         ELSE items[i]]

\* addItem: setItems(prev => !parentKey ? [...prev, item] : addToParent(prev))
AddItem(prev, item, parentKey) ==
  IF parentKey = NoParentKey \/ parentKey = ""
    THEN Append(prev, item)
    ELSE AddToParent(prev, item, parentKey)

\* Mutant: removeItem filters the top level only.
RemoveTopLevelOnly(items, key) == SelectSeq(items, LAMBDA it : it.key # key)

\* removeItem's removeRecursive: items.filter(it => it.key !== key).map(it =>
\* it.children ? {...it, children: removeRecursive(it.children)} : it)
RECURSIVE RemoveRecursive(_, _)
RemoveRecursive(items, key) ==
  LET kept == SelectSeq(items, LAMBDA it : it.key # key)
  IN [i \in 1..Len(kept) |->
        IF kept[i].children # Undefined
          THEN [kept[i] EXCEPT !.children = <<RemoveRecursive(@[1], key)>>]
          ELSE kept[i]]

\* updateItem's updateRecursive, for updates = { label }.
RECURSIVE UpdateRecursive(_, _, _)
UpdateRecursive(items, key, label) ==
  [i \in 1..Len(items) |->
     IF items[i].key = key
       THEN [items[i] EXCEPT !.label = label]
       ELSE IF items[i].children # Undefined
         THEN [items[i] EXCEPT !.children = <<UpdateRecursive(@[1], key, label)>>]
         ELSE items[i]]

SideEv(name, key, parentKey, before) ==
  [name |-> name, key |-> key, parentKey |-> parentKey, before |-> before]

SideFrame == UNCHANGED <<geomVars, lifeVars, authVars, toastVars, notifVars, dialogVars>>

SideInit ==
  /\ sItems \in InitialItems
  /\ sEvent = SideEv("mount", "", NoParentKey, sItems)

SideAddItem ==
  /\ NodeCount(sItems) < MaxNodes
  /\ \E key \in Keys, parentKey \in Keys \cup {NoParentKey} :
       /\ sItems' = AddItem(sItems, Leaf(key, "new"), parentKey)
       /\ sEvent' = SideEv("addItem", key, parentKey, sItems)
  /\ SideFrame

SideRemoveItem ==
  /\ \E key \in Keys :
       /\ sItems' = RemoveRecursive(sItems, key)
       /\ sEvent' = SideEv("removeItem", key, NoParentKey, sItems)
  /\ SideFrame

SideUpdateItem ==
  /\ \E key \in Keys :
       /\ sItems' = UpdateRecursive(sItems, key, "upd")
       /\ sEvent' = SideEv("updateItem", key, NoParentKey, sItems)
  /\ SideFrame

SideNext == SideAddItem \/ SideRemoveItem \/ SideUpdateItem

\* The provider as constructed with the default initialItems = [].
SideIdle ==
  /\ SideInit
  /\ sItems = << >>

(***************************************************************************)
(* ToastProvider, ToastComponent (unnamed/part_003) and Notification.      *)
(***************************************************************************)
DefaultDuration == 5000
MaxAdds == 3
MaxCloses == 2

\* addToast's newToast: { ...toast, id, duration: toast.duration ?? defaultDuration }.
\* The ids Math.random yields are taken pairwise distinct: the n-th id is n.
NewToast(id, duration) ==
  [id |-> id,
   duration |-> IF duration = Undefined THEN DefaultDuration ELSE duration[1]]

\* Mutant: addToast does not slice the list.
AddToastUnbounded(prev, newToast, maxToasts) == <<newToast>> \o prev

\* addToast's updater: [newToast, ...prev].slice(0, maxToasts), maxToasts >= 0.
AddToast(prev, newToast, maxToasts) ==
  SubSeq(<<newToast>> \o prev, 1,
         IF maxToasts < Len(prev) + 1 THEN maxToasts ELSE Len(prev) + 1)

\* removeToast's updater: prev.filter(toast => toast.id !== id).
RemoveToast(prev, id) == SelectSeq(prev, LAMBDA t : t.id # id)

ToastIds(toasts) == {toasts[i].id : i \in 1..Len(toasts)}

\* No ToastComponent: nothing mounted, no timer, no call.
NoComponent ==
  [mounted |-> FALSE, isLeaving |-> FALSE, closeTimeout |-> FALSE,
   exitTimers |-> 0, onCloseCalls |-> 0]

\* A ToastComponent mounts: isLeaving is false and the [toast.duration] effect
\* starts the auto-dismiss timer when the duration is positive.
ToastMount(c, toast) ==
  [c EXCEPT !.mounted = TRUE, !.isLeaving = FALSE,
            !.closeTimeout = (toast.duration > 0)]

\* A ToastComponent unmounts: the effect's cleanup clears closeTimeout.current;
\* the timers started by handleClose are not held anywhere and stay pending.
ToastUnmount(c) ==
  [c EXCEPT !.mounted = FALSE, !.isLeaving = FALSE, !.closeTimeout = FALSE]

\* ToastContainer renders one ToastComponent per toast, keyed by toast.id.
ToastCommit(toasts, comps) ==
  [n \in DOMAIN comps |->
     IF n \in ToastIds(toasts) /\ ~comps[n].mounted
       THEN ToastMount(comps[n], toasts[CHOOSE i \in 1..Len(toasts) : toasts[i].id = n])
     ELSE IF n \notin ToastIds(toasts) /\ comps[n].mounted
       THEN ToastUnmount(comps[n])
     ELSE comps[n]]

\* ToastComponent's handleClose: setIsLeaving(true) and a new 300 ms timer.
ToastHandleClose(c) == [c EXCEPT !.isLeaving = TRUE, !.exitTimers = @ + 1]

\* The model follows at most MaxCloses runs of handleClose per component.
CloseRoom(exitTimers, onCloseCalls) == exitTimers + onCloseCalls < MaxCloses

\* What no step of the feedback components touches.
FeedbackFrame == UNCHANGED <<geomVars, lifeVars, authVars, sideVars>>

ToastInit ==
  /\ tMounted = TRUE
  /\ tMaxToasts \in {1, 2}
  /\ tToasts = << >>
  /\ tCreated = 0
  /\ tComp = [n \in 1..MaxAdds |-> NoComponent]
  /\ tEvent = [name |-> "mount", id |-> 0, before |-> << >>]

\* The list becomes toasts and ToastContainer re-renders.
ToastBecomes(toasts, ev) ==
  /\ tToasts' = toasts
  /\ tEvent' = ev
  /\ UNCHANGED <<tMounted, tMaxToasts, notifVars, dialogVars>>
  /\ FeedbackFrame

\* addToast(toast), with toast.duration undefined or 0.
ToastAdd ==
  /\ tMounted
  /\ tCreated < MaxAdds
  /\ \E duration \in {Undefined, <<0>>} :
       LET id == tCreated + 1
           toasts == AddToast(tToasts, NewToast(id, duration), tMaxToasts)
       IN /\ tCreated' = id
          /\ tComp' = ToastCommit(toasts, tComp)
          /\ ToastBecomes(toasts, [name |-> "addToast", id |-> id, before |-> tToasts])

\* removeToast(id), called by a consumer of the context.
ToastRemove ==
  /\ tMounted
  /\ \E id \in 1..MaxAdds :
       LET toasts == RemoveToast(tToasts, id)
       IN /\ tComp' = ToastCommit(toasts, tComp)
          /\ tCreated' = tCreated
          /\ ToastBecomes(toasts, [name |-> "removeToast", id |-> id, before |-> tToasts])

\* clearToasts().
ToastClear ==
  /\ tMounted
  /\ tToasts # << >>
  /\ tComp' = ToastCommit(<< >>, tComp)
  /\ tCreated' = tCreated
  /\ ToastBecomes(<< >>, [name |-> "clearToasts", id |-> 0, before |-> tToasts])

\* A click on the close button of a mounted ToastComponent: handleClose.
ToastClickClose ==
  /\ tMounted
  /\ \E n \in 1..MaxAdds :
       /\ tComp[n].mounted
       /\ CloseRoom(tComp[n].exitTimers, tComp[n].onCloseCalls)
       /\ tComp' = [tComp EXCEPT ![n] = ToastHandleClose(@)]
       /\ tCreated' = tCreated
       /\ ToastBecomes(tToasts, [name |-> "click", id |-> n, before |-> tToasts])

\* The auto-dismiss timer (toast.duration) fires: handleClose.
ToastTimerFire ==
  /\ tMounted
  /\ \E n \in 1..MaxAdds :
       /\ tComp[n].closeTimeout
       /\ CloseRoom(tComp[n].exitTimers, tComp[n].onCloseCalls)
       /\ tComp' = [tComp EXCEPT
                      ![n] = ToastHandleClose([@ EXCEPT !.closeTimeout = FALSE])]
       /\ tCreated' = tCreated
       /\ ToastBecomes(tToasts, [name |-> "timer", id |-> n, before |-> tToasts])

\* A 300 ms timer of handleClose fires, whether or not its component is still
\* mounted: onClose(toast.id), which is removeToast, then toast.onClose?.().
ToastExitFire ==
  /\ tMounted
  /\ \E n \in 1..MaxAdds :
       /\ tComp[n].exitTimers > 0
       /\ LET toasts == RemoveToast(tToasts, n)
              fired == [tComp EXCEPT ![n].exitTimers = @ - 1,
                                     ![n].onCloseCalls = @ + 1]
          IN /\ tComp' = ToastCommit(toasts, fired)
             /\ tCreated' = tCreated
             /\ ToastBecomes(toasts, [name |-> "exit", id |-> n, before |-> tToasts])

NotifInit ==
  /\ nProps \in [duration : {0, DefaultDuration}, showCloseButton : BOOLEAN]
  /\ nMounted = TRUE
  /\ nIsVisible = TRUE
  /\ nTimer = (nProps.duration > 0)
  /\ nExitTimers = 0
  /\ nOnCloseCalls = 0

\* Notification's handleClose: setIsVisible(false) and a new 300 ms timer.
NotifHandleClose ==
  /\ nIsVisible' = FALSE
  /\ nExitTimers' = nExitTimers + 1

\* A click on the close button, which is rendered while isVisible.
NotifClickClose ==
  /\ nMounted /\ nIsVisible /\ nProps.showCloseButton
  /\ CloseRoom(nExitTimers, nOnCloseCalls)
  /\ NotifHandleClose
  /\ UNCHANGED <<nProps, nMounted, nTimer, nOnCloseCalls>>
  /\ UNCHANGED <<toastVars, dialogVars>>
  /\ FeedbackFrame

\* The auto-dismiss timer (duration) fires: handleClose.
NotifTimerFire ==
  /\ nTimer
  /\ CloseRoom(nExitTimers, nOnCloseCalls)
  /\ nTimer' = FALSE
  /\ NotifHandleClose
  /\ UNCHANGED <<nProps, nMounted, nOnCloseCalls>>
  /\ UNCHANGED <<toastVars, dialogVars>>
  /\ FeedbackFrame

\* A 300 ms timer of handleClose fires, mounted or not: onClose?.().
NotifExitFire ==
  /\ nExitTimers > 0
  /\ nExitTimers' = nExitTimers - 1
  /\ nOnCloseCalls' = nOnCloseCalls + 1
  /\ UNCHANGED <<nProps, nMounted, nIsVisible, nTimer>>
  /\ UNCHANGED <<toastVars, dialogVars>>
  /\ FeedbackFrame

\* The parent re-renders with another duration: the effect's cleanup clears the
\* timer and the effect runs again, starting a timer when duration > 0.
NotifSetDuration ==
  /\ nMounted
  /\ \E duration \in {0, DefaultDuration} \ {nProps.duration} :
       /\ nProps' = [nProps EXCEPT !.duration = duration]
       /\ nTimer' = (duration > 0)
  /\ UNCHANGED <<nMounted, nIsVisible, nExitTimers, nOnCloseCalls>>
  /\ UNCHANGED <<toastVars, dialogVars>>
  /\ FeedbackFrame

\* The parent unmounts the Notification: the effect's cleanup clears the timer.
NotifUnmount ==
  /\ nMounted
  /\ nMounted' = FALSE
  /\ nTimer' = FALSE
  /\ UNCHANGED <<nProps, nIsVisible, nExitTimers, nOnCloseCalls>>
  /\ UNCHANGED <<toastVars, dialogVars>>
  /\ FeedbackFrame

(***************************************************************************)
(* Dialog (components/ui/Dialog/Dialog.tsx).                               *)
(***************************************************************************)
\* The Dialog as mounted: nothing rendered yet, no effect run, body untouched.
DialogInit ==
  /\ dProps \in [open : BOOLEAN, closeOnBackdrop : BOOLEAN,
                 closeOnEscape : BOOLEAN, persistent : BOOLEAN]
  /\ dMounted = TRUE
  /\ dIsVisible = FALSE /\ dIsAnimating = FALSE
  /\ dOverflow = ""
  /\ dTimer = FALSE
  /\ dOpenEffect = << >> /\ dEscEffect = << >> /\ dListener = << >>
  /\ dEvent = [name |-> "mount", emitted |-> << >>]

\* A committed render whose passive effects have not run yet: the deps of the
\* [open] effect or of the [open, closeOnEscape, persistent, onOpenChange] effect
\* differ from those of their last run.
DialogPending ==
  /\ dMounted
  /\ \/ dOpenEffect # <<dProps.open>>
     \/ dEscEffect # <<[open |-> dProps.open, closeOnEscape |-> dProps.closeOnEscape,
                        persistent |-> dProps.persistent]>>

\* React flushes the passive effects of the commit.  The [open] effect, when open
\* changed: the cleanup of an open=false run clears its timer; then open=true
\* shows the dialog and sets body overflow to 'hidden', open=false starts the
\* 150 ms timer.  The Escape effect, when its deps changed: the old listener is
\* removed and, when open, a new one is added.
DialogFlushEffects ==
  /\ DialogPending
  /\ IF dOpenEffect # <<dProps.open>>
       THEN /\ dOpenEffect' = <<dProps.open>>
            /\ IF dProps.open
                 THEN /\ dIsVisible' = TRUE
                      /\ dIsAnimating' = TRUE
                      /\ dOverflow' = "hidden"
                      /\ dTimer' = FALSE
                 ELSE /\ dIsAnimating' = FALSE
                      /\ dTimer' = TRUE
                      /\ UNCHANGED <<dIsVisible, dOverflow>>
       ELSE UNCHANGED <<dOpenEffect, dIsVisible, dIsAnimating, dOverflow, dTimer>>
  /\ LET deps == [open |-> dProps.open, closeOnEscape |-> dProps.closeOnEscape,
                  persistent |-> dProps.persistent]
     IN IF dEscEffect # <<deps>>
          THEN /\ dEscEffect' = <<deps>>
               /\ dListener' = IF dProps.open THEN <<deps>> ELSE << >>
          ELSE UNCHANGED <<dEscEffect, dListener>>
  /\ dEvent' = [name |-> "effects", emitted |-> << >>]
  /\ UNCHANGED <<dProps, dMounted, toastVars, notifVars>>
  /\ FeedbackFrame

\* The parent re-renders the Dialog with one prop changed.
DialogSetProps ==
  /\ dMounted /\ ~DialogPending
  /\ \E f \in DOMAIN dProps : dProps' = [dProps EXCEPT ![f] = ~@]
  /\ dEvent' = [name |-> "props", emitted |-> << >>]
  /\ UNCHANGED <<dMounted, dIsVisible, dIsAnimating, dOverflow, dTimer,
                 dOpenEffect, dEscEffect, dListener, toastVars, notifVars>>
  /\ FeedbackFrame

\* The 150 ms timer fires: setIsVisible(false), body overflow = 'unset'.
DialogTimerFire ==
  /\ dTimer
  /\ dTimer' = FALSE
  /\ dIsVisible' = FALSE
  /\ dOverflow' = "unset"
  /\ dEvent' = [name |-> "timer", emitted |-> << >>]
  /\ UNCHANGED <<dProps, dMounted, dIsAnimating, dOpenEffect, dEscEffect,
                 dListener, toastVars, notifVars>>
  /\ FeedbackFrame

\* An Escape keydown reaches the attached listener, which reads the props of the
\* render that added it: onOpenChange(false) when closeOnEscape && !persistent.
DialogKeyDown ==
  /\ dListener # << >>
  /\ dEvent' = [name |-> "keydown",
                emitted |-> IF dListener[1].closeOnEscape /\ ~dListener[1].persistent
                              THEN <<FALSE>> ELSE << >>]
  /\ UNCHANGED <<dProps, dMounted, dIsVisible, dIsAnimating, dOverflow, dTimer,
                 dOpenEffect, dEscEffect, dListener, toastVars, notifVars>>
  /\ FeedbackFrame

\* A click on the backdrop, which is rendered while isVisible:
\* onOpenChange(false) when closeOnBackdrop && !persistent.
DialogBackdropClick ==
  /\ dMounted /\ dIsVisible /\ ~DialogPending
  /\ dEvent' = [name |-> "backdrop",
                emitted |-> IF dProps.closeOnBackdrop /\ ~dProps.persistent
                              THEN <<FALSE>> ELSE << >>]
  /\ UNCHANGED <<dProps, dMounted, dIsVisible, dIsAnimating, dOverflow, dTimer,
                 dOpenEffect, dEscEffect, dListener, toastVars, notifVars>>
  /\ FeedbackFrame

\* The parent unmounts the Dialog: the cleanups run, clearing the 150 ms timer
\* and removing the keydown listener; nothing writes body overflow.
DialogUnmount ==
  /\ dMounted
  /\ dMounted' = FALSE
  /\ dTimer' = FALSE
  /\ dListener' = << >>
  /\ dEvent' = [name |-> "unmount", emitted |-> << >>]
  /\ UNCHANGED <<dProps, dIsVisible, dIsAnimating, dOverflow, dOpenEffect,
                 dEscEffect, toastVars, notifVars>>
  /\ FeedbackFrame

FeedbackNext ==
  \/ ToastAdd \/ ToastRemove \/ ToastClear
  \/ ToastClickClose \/ ToastTimerFire \/ ToastExitFire
  \/ NotifClickClose \/ NotifTimerFire \/ NotifExitFire
  \/ NotifSetDuration \/ NotifUnmount
  \/ DialogFlushEffects \/ DialogSetProps \/ DialogTimerFire
  \/ DialogKeyDown \/ DialogBackdropClick \/ DialogUnmount

\* No ToastProvider is mounted.
ToastIdle ==
  /\ tMounted = FALSE
  /\ tMaxToasts = 5
  /\ tToasts = << >>
  /\ tCreated = 0
  /\ tComp = [n \in 1..MaxAdds |-> NoComponent]
  /\ tEvent = [name |-> "mount", id |-> 0, before |-> << >>]

\* No Notification is mounted.
NotifIdle ==
  /\ nProps = [duration |-> DefaultDuration, showCloseButton |-> TRUE]
  /\ nMounted = FALSE
  /\ nIsVisible = TRUE
  /\ nTimer = FALSE
  /\ nExitTimers = 0
  /\ nOnCloseCalls = 0

\* No Dialog is mounted.
DialogIdle ==
  /\ dProps = [open |-> FALSE, closeOnBackdrop |-> TRUE, closeOnEscape |-> TRUE,
               persistent |-> FALSE]
  /\ dMounted = FALSE
  /\ dIsVisible = FALSE /\ dIsAnimating = FALSE
  /\ dOverflow = ""
  /\ dTimer = FALSE
  /\ dOpenEffect = << >> /\ dEscEffect = << >> /\ dListener = << >>
  /\ dEvent = [name |-> "mount", emitted |-> << >>]

\* While the other state machine runs, each one stays as constructed.
GeomIdle ==
  /\ gIn = [kind |-> "Dropdown", triggerRect |-> LifeTriggerRect,
            floatingRect |-> LifeFloatingRect, win |-> LifeWin, quirks |-> FALSE,
            placement |-> "bottom", align |-> "start", offset |-> 8]
  /\ gPosition = DefaultPosition
  /\ gFirst = NoCall /\ gPrev = NoCall /\ gLast = NoCall

LifeIdle ==
  /\ LifeInit
  /\ kind = "Dropdown"
  /\ props = [open |-> Undefined, onOpenChange |-> FALSE, placement |-> "bottom",
              align |-> "start", offset |-> 8, closeOnClick |-> TRUE,
              closeOnEscape |-> TRUE, closeOnBlur |-> TRUE, delay |-> 0,
              disabled |-> FALSE, trigger |-> "click"]

Next == LifeNext

InitGeometry == GeomInit /\ LifeIdle /\ AuthIdle /\ SideIdle
  /\ ToastIdle /\ NotifIdle /\ DialogIdle

SpecGeometry == InitGeometry /\ [][GeomNext]_vars

Init == LifeInit /\ GeomIdle /\ AuthIdle /\ SideIdle
  /\ ToastIdle /\ NotifIdle /\ DialogIdle

Spec == Init /\ [][Next]_vars

InitAuth == AuthInit /\ GeomIdle /\ LifeIdle /\ SideIdle
  /\ ToastIdle /\ NotifIdle /\ DialogIdle

\* React runs the [token] effect after every commit that changed the token.
SpecAuth == InitAuth /\ [][AuthNext]_vars /\ WF_vars(AuthTokenEffect)

InitSidebar == SideInit /\ GeomIdle /\ LifeIdle /\ AuthIdle
  /\ ToastIdle /\ NotifIdle /\ DialogIdle

SpecSidebar == InitSidebar /\ [][SideNext]_vars

\* One ToastProvider, or one Notification, or one Dialog.
InitFeedback ==
  /\ \/ ToastInit /\ NotifIdle /\ DialogIdle
     \/ ToastIdle /\ NotifInit /\ DialogIdle
     \/ ToastIdle /\ NotifIdle /\ DialogInit
  /\ GeomIdle /\ LifeIdle /\ AuthIdle /\ SideIdle

SpecFeedback == InitFeedback /\ [][FeedbackNext]_vars

(***************************************************************************)
(* Claims about the life cycle (Spec).                                     *)
(***************************************************************************)
OpenNow == DropdownOpen(Cur)
Quiet == mounted /\ ~Pending(Cur)
Emits(v) == IF props.onOpenChange THEN <<v>> ELSE << >>

\* C3: in a Tooltip with trigger='hover' and delay > 0, whatever pointer-enter and
\* pointer-leave events arrive, the tooltip becomes visible only while a
\* pointer-enter has been delivered with no pointer-leave since (no late open
\* after a leave).
C3_NoLateOpenAfterLeave ==
  [][(/\ kind = "Tooltip" /\ props.trigger = "hover" /\ props.delay > 0
      /\ ~isVisible /\ isVisible')
       => pointerOver]_vars

\* C4: in Dropdown and Menu, an Escape keydown while the overlay is open (and the
\* effects of its last render have run) closes it when closeOnEscape=true and
\* leaves it open when closeOnEscape=false; any other key leaves the open state
\* alone.  Closing is asked of uncontrolled overlays only: the open state of a
\* controlled one is its caller's.
C4_EscapeClosesWhenEnabled ==
  [][(/\ event'.name = "keydown" /\ kind \in OverlayKinds /\ Quiet /\ OpenNow)
       => IF event'.arg = "Escape" /\ props.closeOnEscape
            THEN IsControlled(Cur) \/ ~OpenNow'
            ELSE OpenNow']_vars

\* C5: the window resize and scroll listeners of updatePosition are registered
\* exactly while the overlay is open: once the effects of the last commit have
\* run, window holds one resize and one scroll listener of the instance if it is
\* mounted and open and none otherwise, and listeners never accumulate.
C5_ListenersExactlyWhileOpen ==
  /\ Cardinality(winListeners) <= 2
  /\ ~Pending(Cur) =>
       IF mounted /\ Shown(Cur)
         THEN /\ Cardinality(winListeners) = 2
              /\ {l.type : l \in winListeners} = {"resize", "scroll"}
              /\ \A l \in winListeners : posEffect.cleanup = <<l.cl>>
         ELSE winListeners = {}

\* C5 witness: a Tooltip that was shown and measured is hidden again, its effects
\* have run, and window holds no listener.
C5_Witness ==
  /\ kind = "Tooltip" /\ mounted /\ ~Pending(Cur)
  /\ ~isVisible
  /\ position # DefaultPosition
  /\ event.name = "effects"
  /\ winListeners = {}

\* C6: in Dropdown and Menu, while the open prop is supplied and every effect of
\* the last render has run, no call of handleClose or handleToggle changes the
\* internal isOpen flag; a click on the trigger only emits the negation of the
\* open value.
C6_ControlledNeverMutates ==
  [][(kind \in OverlayKinds /\ Quiet /\ IsControlled(Cur))
       => /\ isOpen' = isOpen
          /\ event'.name = "clickTrigger" => event'.emitted = Emits(~OpenNow)]_vars

\* C8: in Dropdown and Menu, a click on an enabled item of the open overlay closes
\* it when closeOnClick=true (a controlled overlay emits onOpenChange(false)) and
\* leaves it open when closeOnClick=false.
C8_ItemClickCloses ==
  [][(/\ event'.name = "clickItem" /\ event'.arg = "enabled"
      /\ kind \in OverlayKinds /\ OpenNow)
       => IF props.closeOnClick
            THEN IF IsControlled(Cur) THEN event'.emitted = Emits(FALSE) ELSE ~OpenNow'
            ELSE OpenNow']_vars

\* C9: an open Dropdown or Menu closes on a click outside the trigger and the
\* floating element, whether or not focus was inside the overlay before the
\* click.  Closing is asked of uncontrolled overlays only.
C9_OutsideClickCloses ==
  [][(event'.name = "clickOutside" /\ kind \in OverlayKinds /\ OpenNow)
       => IsControlled(Cur) \/ ~OpenNow']_vars

FocusLeavesRoot == event'.arg \in {"outside", "null"}

\* C10 as stated: with closeOnBlur=true an open overlay closes when focus leaves
\* the root and stays open when focus moves inside it; with closeOnBlur=false no
\* blur closes it.
C10_BlurClosesOriginal ==
  [][(event'.name = "blur" /\ kind \in OverlayKinds /\ OpenNow)
       => IF props.closeOnBlur /\ FocusLeavesRoot THEN ~OpenNow' ELSE OpenNow']_vars

\* C10 amended: with closeOnBlur=true, a blur whose relatedTarget is outside the
\* root (or null) closes an open uncontrolled overlay, while a controlled one keeps
\* the open state of its prop and only calls onOpenChange(false) if supplied; a
\* blur to an element inside the root changes and emits nothing; with
\* closeOnBlur=false no blur closes the overlay or emits.
C10_BlurCloses ==
  [][(event'.name = "blur" /\ kind \in OverlayKinds /\ OpenNow)
       => IF props.closeOnBlur /\ FocusLeavesRoot
            THEN /\ event'.emitted = Emits(FALSE)
                 /\ IF IsControlled(Cur) THEN OpenNow' /\ isOpen' = isOpen
                                         ELSE ~OpenNow' /\ ~isOpen'
            ELSE OpenNow' /\ isOpen' = isOpen /\ event'.emitted = << >>]_vars

\* C10 witness: focus left the root of an open uncontrolled Menu with closeOnBlur
\* and the Menu is closed.
C10_Witness ==
  /\ kind = "Menu" /\ ~IsControlled(Cur) /\ props.closeOnBlur
  /\ event.name = "blur" /\ event.arg = "outside" /\ event.wasOpen
  /\ ~OpenNow

\* C11: in Dropdown, Menu and Tooltip, in every state where the floating element
\* is rendered, its position is one measured since the current open transition
\* (the position effect has run for this open cycle) and is not the default
\* (0,0) of the state before any measurement.
C11_RenderedOnlyWhenMeasured ==
  (mounted /\ contentRef) => (posEffect.cleanup # << >> /\ position # DefaultPosition)

\* C12: after a Tooltip has been closed by hideTooltip (a pointer-leave in hover
\* mode, a blur in focus mode) or unmounted, no timer is pending that would call
\* setIsVisible(true).
C12_NoTimerAfterClose ==
  (/\ kind = "Tooltip"
   /\ \/ ~mounted
      \/ props.trigger = "hover" /\ event.name = "mouseleave"
      \/ props.trigger = "focus" /\ event.name = "blur")
    => timers = {}

OtherModeEvents(trigger) ==
  CASE trigger = "hover" -> {"click", "focus", "blur"}
    [] trigger = "click" -> {"mouseenter", "mouseleave", "focus", "blur"}
    [] trigger = "focus" -> {"mouseenter", "mouseleave", "click"}

\* C13: a Tooltip's visibility is unchanged by every event of a trigger mode other
\* than its configured one, and such an event starts no timer.
C13_OnlyConfiguredTrigger ==
  [][(kind = "Tooltip" /\ mounted /\ event'.name \in OtherModeEvents(props.trigger))
       => isVisible' = isVisible /\ timers' = timers]_vars

\* C13 witness: a visible hover Tooltip was clicked and is still visible.
C13_Witness ==
  /\ kind = "Tooltip" /\ props.trigger = "hover" /\ mounted
  /\ event.name = "click" /\ event.wasOpen
  /\ isVisible

Opens == mounted /\ ~Shown(Cur) /\ mounted' /\ Shown(Cur)'

\* C14: the step that opens a Dropdown, Menu or Tooltip leaves the position alone,
\* commits the floating element with both refs attached, leaves the position
\* effect to run and no listener that could measure before it; and when the
\* position effect runs for a shown overlay, both refs are attached and the
\* position becomes the one updatePosition resolves from them.
C14_MeasuredAfterCommit ==
  [][/\ Opens => /\ position' = position
                 /\ triggerRef' /\ contentRef'
                 /\ PosEffectPending(Cur)'
                 /\ winListeners' = {}
     /\ (event'.name = "effects" /\ PosEffectPending(Cur) /\ Shown(Cur))
          => /\ triggerRef /\ contentRef
             /\ position' = ResolvePosition(kind, LifeTriggerRect, LifeFloatingRect,
                                            LifeWin, props.placement, props.align,
                                            props.offset)]_vars

\* C14 witness: an uncontrolled Dropdown was opened by a click, its effects have
\* run and its position is measured.
C14_Witness ==
  /\ kind = "Dropdown" /\ mounted /\ ~IsControlled(Cur) /\ isOpen
  /\ event.name = "effects" /\ event.wasOpen
  /\ contentRef /\ position # DefaultPosition

\* C15: a resize or scroll listener's updatePosition that finds the trigger ref
\* or the floating ref null changes nothing: the stored position and the rest
\* of the instance are as before.
C15_NullRefNoOp ==
  [][(/\ event'.name \in {"resize", "scroll"} /\ event'.arg = "listener"
      /\ (~triggerRef \/ ~contentRef))
       => Cur' = Cur]_vars

\* C15 witness: a listener ran on a mounted instance whose floating element is
\* gone, and the position measured earlier is still stored.
C15_Witness ==
  /\ mounted /\ ~contentRef
  /\ event.name \in {"resize", "scroll"} /\ event.arg = "listener"
  /\ position # DefaultPosition

\* C16: while a Dropdown or Menu stays mounted, whether it is controlled never
\* changes, whatever the open prop becomes.
C16_ModeResolvedOnce ==
  [][(kind \in OverlayKinds /\ mounted /\ mounted')
       => IsControlled(Cur)' = IsControlled(Cur)]_vars

\* C17: for every side, align, offset, scroll offset and trigger/floating bounds,
\* Dropdown.updatePosition, Menu.updatePosition and Tooltip.updatePosition
\* compute the same {top, left}, and the position a call of any of the three
\* components stores is that common value.
C17_ThreeCopiesAgree ==
  LET d == DropdownUpdatePosition(gIn.triggerRect, gIn.floatingRect, gIn.win,
                                  gIn.placement, gIn.align, gIn.offset)
      m == MenuUpdatePosition(gIn.triggerRect, gIn.floatingRect, gIn.win,
                              gIn.placement, gIn.align, gIn.offset)
      t == TooltipUpdatePosition(gIn.triggerRect, gIn.floatingRect, gIn.win,
                                 gIn.placement, gIn.align, gIn.offset)
  IN /\ d = m /\ m = t
     /\ (gLast # NoCall /\ gLast[1].in = gIn) => gPosition = d

\* C17 witness: a Tooltip placed on the left with align 'end', the page scrolled,
\* has stored the position of its own copy.
C17_Witness ==
  /\ gLast # NoCall /\ gLast[1].in = gIn
  /\ gIn.kind = "Tooltip" /\ gIn.placement = "left" /\ gIn.align = "end"
  /\ gIn.win.pageYOffset > 0 /\ gIn.win.pageXOffset > 0
  /\ gPosition = gLast[1].out

(***************************************************************************)
(* Claims about AuthProvider (SpecAuth).                                   *)
(***************************************************************************)
\* C18: the token in state and the localStorage entry under storageKey agree in
\* every state: a non-empty token is the entry, a null token has no entry (nor
\* has an empty-string token); right after setToken(t) with a non-empty t the
\* entry is t, and after setToken(null) it is absent.
C18_TokenAgreesWithStorage ==
  /\ Truthy(aToken) => aStorage = aToken
  /\ aToken = NoToken => aStorage = NoToken
  /\ aToken = "" => aStorage = NoToken
  /\ (aEvent.name = "call" /\ aEvent.op = "setToken")
       => /\ aToken = aEvent.token
          /\ Truthy(aEvent.token) => aStorage = aEvent.token
          /\ aEvent.token = NoToken => aStorage = NoToken

\* C18 witness: setToken(null) was called while the token was "t1"; state and
\* storage are both empty.
C18_Witness ==
  /\ aEvent.name = "call" /\ aEvent.op = "setToken"
  /\ aEvent.token = NoToken /\ aEvent.before = "t1"
  /\ aToken = NoToken /\ aStorage = NoToken

FetchStarted(t) ==
  \E r \in aInflight' \ aInflight : r.op = "refreshUser" /\ r.token = t

FetchInFlight(t) == \E r \in aInflight : r.op = "refreshUser" /\ r.token = t

TokenChangedTo(t) == aToken = t /\ aTokenEffect # <<t>>

\* What C19 asks of one step, hasToken telling whether the token counts as one.
C19_Step(hasToken) ==
  /\ aEvent'.name = "effect"
       => IF hasToken
            THEN FetchStarted(aToken)
            ELSE aInflight' = aInflight /\ aUser' = NoUser /\ ~aIsLoading'
  /\ (aEvent'.name = "settle" /\ aEvent'.op = "refreshUser" /\ aEvent'.ok)
       => aUser' = aEvent'.user

\* C19 as stated: on mount and whenever the token changes the effect runs; with a
\* non-null token it starts the fetch of the user for that token, and a
\* successful fetch makes user the fetched user; with a null token no fetch is
\* made, user becomes null and isLoading false.
C19_FetchOnTokenChangeOriginal ==
  /\ [][C19_Step(aToken # NoToken)]_vars
  /\ \A t \in Tokens : TokenChangedTo(t) ~> FetchInFlight(t)
  /\ TokenChangedTo(NoToken) ~> (aUser = NoUser /\ ~aIsLoading)

\* C19 amended: the same with the empty string treated as no token: a fetch is
\* started for every non-null, non-empty token the token becomes; for a null or
\* empty token no fetch is made, user becomes null and isLoading false.
C19_FetchOnTokenChange ==
  /\ [][C19_Step(Truthy(aToken))]_vars
  /\ \A t \in Tokens \ {""} : TokenChangedTo(t) ~> FetchInFlight(t)
  /\ \A t \in {NoToken, ""} : TokenChangedTo(t) ~> (aUser = NoUser /\ ~aIsLoading)

\* C19 witness: the fetch for the current token succeeded and user is the
\* fetched user.
C19_Witness ==
  /\ aEvent.name = "settle" /\ aEvent.op = "refreshUser" /\ aEvent.ok
  /\ Truthy(aToken) /\ aToken = aEvent.token
  /\ aUser = aEvent.user /\ aUser # NoUser

(***************************************************************************)
(* Claims about SidebarProvider (SpecSidebar).                             *)
(***************************************************************************)
\* The items in pre-order, each with its depth, key, label and whether it has a
\* children list: this sequence determines the tree.
RECURSIVE Flatten(_, _)
Flatten(items, depth) ==
  IF items = << >>
    THEN << >>
    ELSE LET it == Head(items)
         IN <<[depth |-> depth, key |-> it.key, label |-> it.label,
               hasChildren |-> it.children # Undefined]>>
              \o (IF it.children # Undefined
                    THEN Flatten(it.children[1], depth + 1) ELSE << >>)
              \o Flatten(Tail(items), depth)

\* The same, leaving out every item with the given key and all below it.
RECURSIVE Survivors(_, _, _)
Survivors(items, depth, key) ==
  IF items = << >>
    THEN << >>
    ELSE LET it == Head(items)
         IN (IF it.key = key
               THEN << >>
               ELSE <<[depth |-> depth, key |-> it.key, label |-> it.label,
                       hasChildren |-> it.children # Undefined]>>
                      \o (IF it.children # Undefined
                            THEN Survivors(it.children[1], depth + 1, key)
                            ELSE << >>))
              \o Survivors(Tail(items), depth, key)

\* C20: after removeItem(key) the tree holds exactly the items that had neither
\* the key nor an ancestor with the key, each at its depth, with its label and
\* in the order they had; no item with that key remains at any depth.
C20_RemoveItemRemovesAll ==
  sEvent.name = "removeItem"
    => LET after == Flatten(sItems, 0)
       IN /\ after = Survivors(sEvent.before, 0, sEvent.key)
          /\ \A i \in 1..Len(after) : after[i].key # sEvent.key

\* C20 witness: removeItem removed a nested item under a surviving parent, at
\* least three items in all, and items remain.
C20_Witness ==
  /\ sEvent.name = "removeItem"
  /\ sItems # << >>
  /\ LET before == Flatten(sEvent.before, 0)
     IN /\ Len(before) - Len(Flatten(sItems, 0)) >= 3
        /\ \E i \in 2..Len(before) :
             /\ before[i].key = sEvent.key /\ before[i].depth = 1
             /\ before[i - 1].key # sEvent.key /\ before[i - 1].depth = 0

(***************************************************************************)
(* Further claims about SidebarProvider (SpecSidebar).                     *)
(***************************************************************************)
\* seq without its i-th element.
DropAt(seq, i) == SubSeq(seq, 1, i - 1) \o SubSeq(seq, i + 1, Len(seq))

\* The index of the parent of entry i of a pre-order list, or 0 at the top level.
ParentAt(flat, i) ==
  LET above == {j \in 1..(i - 1) : flat[j].depth = flat[i].depth - 1}
  IN IF above = {} THEN 0 ELSE CHOOSE j \in above : \A k \in above : k <= j

\* Entry i is the last child of its parent: the next entry, if any, is not deeper
\* than that parent's children... it lies at a smaller depth.
LastChildAt(flat, i) == i = Len(flat) \/ flat[i + 1].depth < flat[i].depth

\* C21: after addItem(item, parentKey) the tree holds the items it held, unchanged
\* and in their order, plus the new item: without parentKey as the last item of
\* the top level, else as the last child of an item whose key is parentKey (which
\* then has a children list).  The new item is always present.
C21_AddItemAppends ==
  sEvent.name = "addItem"
    => LET before == Flatten(sEvent.before, 0)
           after == Flatten(sItems, 0)
       IN \E i \in 1..Len(after) :
            /\ after[i].key = sEvent.key /\ after[i].label = "new"
            /\ ~after[i].hasChildren
            /\ LastChildAt(after, i)
            /\ LET p == ParentAt(after, i)
                   rest == DropAt(after, i)
               IN IF sEvent.parentKey = NoParentKey
                    THEN p = 0 /\ rest = before
                    ELSE /\ p # 0
                         /\ after[p].key = sEvent.parentKey
                         /\ after[p].hasChildren
                         /\ rest = [before EXCEPT ![p].hasChildren = TRUE]

(***************************************************************************)
(* Further claims about Tooltip (Spec).                                    *)
(***************************************************************************)
\* C22: a Tooltip with disabled=true is never visible, in every trigger mode and
\* after any sequence of pointer, click and focus events.
C22_DisabledNeverVisible ==
  (kind = "Tooltip" /\ props.disabled) => ~isVisible

(***************************************************************************)
(* Further claims about AuthProvider (SpecAuth).                           *)
(***************************************************************************)
\* C23: when logout has just completed, the response that arrives next, settling
\* the last request that was in flight, leaves user null and token null.
C23_NoUserAfterLogout ==
  [][(/\ aEvent.name = "settle" /\ aEvent.op = "logout"
      /\ aEvent'.name = "settle" /\ aEvent'.op # "logout"
      /\ aInflight' = {})
       => aUser' = NoUser /\ aToken' = NoToken]_vars

\* C24: isLoading is true in every state in which an auth request is in flight.
C24_LoadingWhileInFlight ==
  aInflight # {} => aIsLoading

\* C25: right after a request has failed, user is null, the token is null in
\* state and absent from localStorage, and isLoading is false; a failed login or
\* register has rethrown and a failed refreshUser has not; logout, whether its
\* request failed or not, has cleared the same and has not thrown.
C25_FailureClearsSession ==
  (aEvent.name = "settle" /\ (~aEvent.ok \/ aEvent.op = "logout"))
    => /\ aUser = NoUser
       /\ aToken = NoToken /\ aStorage = NoToken
       /\ ~aIsLoading
       /\ aEvent.thrown = (aEvent.op \in {"login", "register"})

\* C25 witness: a login failed while the token was "t1"; the session is cleared
\* and the error was rethrown.
C25_Witness ==
  /\ aEvent.name = "settle" /\ aEvent.op = "login" /\ ~aEvent.ok
  /\ aEvent.before = "t1" /\ aEvent.thrown
  /\ aUser = NoUser /\ aToken = NoToken /\ aStorage = NoToken /\ ~aIsLoading

(***************************************************************************)
(* Claims about ToastProvider, Notification and Dialog (SpecFeedback).     *)
(***************************************************************************)
\* The toasts of the list are in the order newest first: ids, which addToast
\* generates in increasing order in this model, decrease along the list.
NewestFirst(toasts) ==
  \A i, j \in 1..Len(toasts) : i < j => toasts[i].id > toasts[j].id

\* The entries of before whose id is not id.
Others(before, id) == {before[i] : i \in {k \in 1..Len(before) : before[k].id # id}}

\* C26: the toasts list never holds more than maxToasts entries and is ordered
\* newest first; addToast puts the new toast first and keeps the toasts before,
\* all of them, or all but the oldest when the list was full; removeToast(id),
\* called by a consumer or by a ToastComponent, removes the toast with that id
\* and keeps every other one; clearToasts empties the list.
C26_ToastListBounded ==
  tMounted
    => /\ Len(tToasts) <= tMaxToasts
       /\ NewestFirst(tToasts)
       /\ tEvent.name = "addToast"
            => /\ tToasts[1].id = tEvent.id
               /\ LET before == tEvent.before
                      kept == IF Len(before) = tMaxToasts
                                THEN Len(before) - 1 ELSE Len(before)
                  IN Tail(tToasts) = SubSeq(before, 1, kept)
       /\ tEvent.name \in {"removeToast", "exit"}
            => /\ tEvent.id \notin ToastIds(tToasts)
               /\ {tToasts[i] : i \in 1..Len(tToasts)} = Others(tEvent.before, tEvent.id)
               /\ Len(tToasts) = Cardinality(Others(tEvent.before, tEvent.id))
       /\ tEvent.name = "clearToasts" => tToasts = << >>

\* C26 witness: a toast was added to a full list of two; the list holds the new
\* toast and the newer of the two, and the oldest is gone.
C26_Witness ==
  /\ tMounted /\ tMaxToasts = 2
  /\ tEvent.name = "addToast" /\ Len(tEvent.before) = 2
  /\ Len(tToasts) = 2
  /\ tToasts[1].id = tEvent.id
  /\ tToasts[2] = tEvent.before[1]
  /\ tEvent.before[2].id \notin ToastIds(tToasts)

\* C27: toast.onClose is invoked at most once for each toast, and the onClose of
\* a Notification at most once, whatever the order in which the auto-dismiss
\* timer, clicks on the close button and the 300 ms timers of handleClose occur.
C27_OnCloseAtMostOnce ==
  /\ \A n \in DOMAIN tComp : tComp[n].onCloseCalls <= 1
  /\ nOnCloseCalls <= 1

\* C28: body overflow is 'hidden' while the Dialog is open (its effects having
\* run), is not 'hidden' once the Dialog is closed and the 150 ms timer has
\* elapsed, and is not 'hidden' once the Dialog is unmounted, in whatever state
\* it was unmounted.
C28_BodyLockedOnlyWhileShown ==
  /\ (dMounted /\ dProps.open /\ ~DialogPending) => dOverflow = "hidden"
  /\ (dMounted /\ ~dProps.open /\ ~DialogPending /\ ~dTimer) => dOverflow # "hidden"
  /\ ~dMounted => dOverflow # "hidden"

====
